---- MODULE Spec2Model ----
(***************************************************************************)
(* Route parser of React Router Navigator (src/src/extension.ts).          *)
(* A text is a sequence of one-character strings; offsets are 0-based as   *)
(* in the TypeScript source, so CharAt(text, i) is text[i] of the source.  *)
(***************************************************************************)
EXTENDS Integers, Sequences, FiniteSets, TLC

VARIABLES
  text,        \* document.getText(), the snapshot being parsed
  pc,          \* the statement of the parser that runs next
  tokens,      \* parseRouteTokens: tokens
  p,           \* parseRouteTokens: position in patterns of the for loop
  lastIndex,   \* parseRouteTokens: regex.lastIndex of the current pattern
  cur,         \* parseRouteTokens: the locals of the while loop body
  i,           \* the scanning functions' cursor
  depth,       \* findMatchingParen: depth
  quote,       \* findMatchingParen, extractStringArg: quote
  value,       \* extractStringArg: value
  foundComma,  \* findChildrenArray: foundComma
  arg,         \* which call of extractStringArg is running: "path" or "file"
  result,      \* what extractStringArg returns
  parent,      \* buildTree: node.parent, 0 when undefined
  roots,       \* buildTree: roots
  routes,      \* parseRoutesFile: routes
  rootIdx,     \* parseRoutesFile: position in roots of the for loop
  stack,       \* traverse: the call stack, one frame per active call
  current,     \* calculateFullPath: current
  pathParts,   \* calculateFullPath: pathParts
  base,        \* the snapshot parsed before the last change of the document
  edit         \* the last change of the document

scanVars == <<p, lastIndex, cur, i, depth, quote, value, foundComma, arg, result>>
treeVars == <<parent, roots, routes, rootIdx, stack, current, pathParts>>
histVars == <<base, edit>>
vars == <<text, pc, tokens, scanVars, treeVars, histVars>>

-----------------------------------------------------------------------------
(* Characters *)

undefined == "undefined"

CharAt(txt, at) == IF at >= 0 /\ at < Len(txt) THEN txt[at + 1] ELSE undefined

IsSpace(c) == c \in {" ", "\t", "\n"}

WordChars ==
  {"a", "b", "c", "d", "e", "f", "g", "h", "i", "j", "k", "l", "m", "n", "o",
   "p", "q", "r", "s", "t", "u", "v", "w", "x", "y", "z", "_", "0", "1"}

IsWordChar(c) == c \in WordChars

\* text.substring(a, b): both ends are clamped to 0..text.length
substring(txt, a, b) ==
  LET clamp(n) == IF n < 0 THEN 0 ELSE IF n > Len(txt) THEN Len(txt) ELSE n
      from     == IF clamp(a) <= clamp(b) THEN clamp(a) ELSE clamp(b)
      to       == IF clamp(a) <= clamp(b) THEN clamp(b) ELSE clamp(a)
  IN SubSeq(txt, from + 1, to)

-----------------------------------------------------------------------------
(* getLineFromIndex / getColumnFromIndex *)

\* (substring.match(/\n/g) || []).length with substring = text.substring(0, index)
getLineFromIndex(txt, index) ==
  Cardinality({k \in 0..(index - 1) : k < Len(txt) /\ CharAt(txt, k) = "\n"})

\* text.lastIndexOf('\n', fromIndex); a negative fromIndex counts as 0
lastIndexOfNewline(txt, fromIndex) ==
  LET from == IF fromIndex < 0 THEN 0 ELSE fromIndex
      found == {k \in 0..from : k < Len(txt) /\ CharAt(txt, k) = "\n"}
  IN IF found = {} THEN -1 ELSE CHOOSE k \in found : \A l \in found : l <= k

\* mutant: the column is counted from the newline itself
getColumnFromIndex_fromNewline(txt, index) ==
  index - lastIndexOfNewline(txt, index - 1)

getColumnFromIndex(txt, index) ==
  index - lastIndexOfNewline(txt, index - 1) - 1

-----------------------------------------------------------------------------
(* parseRouteTokens: the patterns and the regular expression *)

Keyword(type) ==
  CASE type = "route"  -> <<"r", "o", "u", "t", "e">>
    [] type = "index"  -> <<"i", "n", "d", "e", "x">>
    [] type = "layout" -> <<"l", "a", "y", "o", "u", "t">>
    [] type = "prefix" -> <<"p", "r", "e", "f", "i", "x">>

\* mutant: index takes its first string argument as a path
patterns_indexHasPath ==
  << [type |-> "route",  hasPath |-> TRUE],
     [type |-> "index",  hasPath |-> TRUE],
     [type |-> "layout", hasPath |-> FALSE],
     [type |-> "prefix", hasPath |-> TRUE] >>

patterns ==
  << [type |-> "route",  hasPath |-> TRUE],
     [type |-> "index",  hasPath |-> FALSE],
     [type |-> "layout", hasPath |-> FALSE],
     [type |-> "prefix", hasPath |-> TRUE] >>

\* the offset of the first character at or after from that \s does not match
skipSpaces(txt, from) ==
  CHOOSE q \in from..Len(txt) :
    /\ ~IsSpace(CharAt(txt, q))
    /\ \A k \in from..(q - 1) : IsSpace(CharAt(txt, k))

\* mutant: the pattern allows no whitespace between the name and "("
regexMatchAt_noSpace(txt, type, at) ==
  LET kw == Keyword(type)
      q  == at + Len(kw)
  IN IF /\ at + Len(kw) <= Len(txt)
        /\ (at = 0 \/ ~IsWordChar(CharAt(txt, at - 1)))
        /\ substring(txt, at, at + Len(kw)) = kw
        /\ CharAt(txt, q) = "("
     THEN q + 1 ELSE -1

\* /\b<type>\s*\(/ tried at offset at: the offset just after "(", or -1
regexMatchAt(txt, type, at) ==
  LET kw == Keyword(type)
      q  == skipSpaces(txt, at + Len(kw))
  IN IF /\ at + Len(kw) <= Len(txt)
        /\ (at = 0 \/ ~IsWordChar(CharAt(txt, at - 1)))
        /\ substring(txt, at, at + Len(kw)) = kw
        /\ CharAt(txt, q) = "("
     THEN q + 1 ELSE -1

\* regex.exec(text) of a global regex: the first match at or after from;
\* index -1 (null in the source) when there is none
regexExec(txt, type, from) ==
  IF \A at \in from..Len(txt) : regexMatchAt(txt, type, at) = -1
  THEN [index |-> -1, lastIndex |-> 0]
  ELSE LET at == CHOOSE a \in from..Len(txt) :
                   /\ regexMatchAt(txt, type, a) # -1
                   /\ \A b \in from..(a - 1) : regexMatchAt(txt, type, b) = -1
       IN [index |-> at, lastIndex |-> regexMatchAt(txt, type, at)]

\* text.indexOf(c, from)
indexOf(txt, c, from) ==
  IF \A k \in from..(Len(txt) - 1) : CharAt(txt, k) # c THEN -1
  ELSE CHOOSE a \in from..(Len(txt) - 1) :
         /\ CharAt(txt, a) = c
         /\ \A b \in from..(a - 1) : CharAt(txt, b) # c

null == [value |-> <<>>, endIndex |-> -1]

noMatch == [type |-> "none", hasPath |-> FALSE, startIndex |-> -1,
            openParenIndex |-> -1, closeParenIndex |-> -1, path |-> <<>>,
            afterPathIndex |-> -1, afterFileIndex |-> -1, childrenStart |-> -1]

-----------------------------------------------------------------------------
(* parseRouteTokens: the for loop over patterns and the while loop over    *)
(* the matches of one pattern                                               *)

\* regex.exec(text) returns a match: the loop body starts with
\* findMatchingParen(text, openParenIndex)
ExecMatch ==
  /\ pc = "exec"
  /\ \E match \in {regexExec(text, patterns[p].type, lastIndex)} :
       /\ match.index # -1
       /\ \E open \in {indexOf(text, "(", match.index)} :
            /\ cur' = [noMatch EXCEPT !.type = patterns[p].type,
                                      !.hasPath = patterns[p].hasPath,
                                      !.startIndex = match.index,
                                      !.openParenIndex = open]
            /\ i' = open + 1
       /\ lastIndex' = match.lastIndex
       /\ depth' = 1
  /\ pc' = "findMatchingParen"
  /\ UNCHANGED <<text, tokens, p, quote, value, foundComma, arg, result, treeVars, histVars>>

\* regex.exec(text) returns null: the while loop of this pattern ends
ExecNoMatch ==
  /\ pc = "exec"
  /\ regexExec(text, patterns[p].type, lastIndex).index = -1
  /\ lastIndex' = 0
  /\ IF p < Len(patterns)
     THEN p' = p + 1 /\ pc' = "exec"
     ELSE p' = p /\ pc' = "sort"
  /\ UNCHANGED <<text, tokens, cur, i, depth, quote, value, foundComma, arg, result,
                 treeVars, histVars>>

-----------------------------------------------------------------------------
(* findMatchingParen *)

FindMatchingParenStep ==
  /\ pc = "findMatchingParen"
  /\ i < Len(text) /\ depth > 0
  /\ LET c == CharAt(text, i) IN
     IF c = "(" THEN depth' = depth + 1 /\ i' = i + 1 /\ UNCHANGED <<quote, pc>>
     ELSE IF c = ")" THEN depth' = depth - 1 /\ i' = i + 1 /\ UNCHANGED <<quote, pc>>
     ELSE IF c = "\"" \/ c = "'"
          THEN quote' = c /\ i' = i + 1 /\ pc' = "skipString" /\ UNCHANGED depth
     ELSE i' = i + 1 /\ UNCHANGED <<depth, quote, pc>>
  /\ UNCHANGED <<text, tokens, p, lastIndex, cur, value, foundComma, arg, result,
                 treeVars, histVars>>

\* the inner while loop that skips string content
SkipStringStep ==
  /\ pc = "skipString"
  /\ i < Len(text) /\ CharAt(text, i) # quote
  /\ i' = (IF CharAt(text, i) = "\\" THEN i + 1 ELSE i) + 1
  /\ UNCHANGED <<text, pc, tokens, p, lastIndex, cur, depth, quote, value, foundComma,
                 arg, result, treeVars, histVars>>

\* the inner loop ends; the i++ that closes the outer loop body
SkipStringEnd ==
  /\ pc = "skipString"
  /\ ~(i < Len(text) /\ CharAt(text, i) # quote)
  /\ i' = i + 1
  /\ pc' = "findMatchingParen"
  /\ UNCHANGED <<text, tokens, p, lastIndex, cur, depth, quote, value, foundComma,
                 arg, result, treeVars, histVars>>

\* return depth === 0 ? i - 1 : -1, and the statements up to the first call
\* of extractStringArg
FindMatchingParenReturn ==
  /\ pc = "findMatchingParen"
  /\ ~(i < Len(text) /\ depth > 0)
  /\ LET closeParenIndex == IF depth = 0 THEN i - 1 ELSE -1 IN
     IF closeParenIndex = -1
     THEN /\ pc' = "exec"
          /\ UNCHANGED <<cur, i, arg>>
     ELSE /\ cur' = [cur EXCEPT !.closeParenIndex = closeParenIndex,
                                !.afterPathIndex = cur.openParenIndex + 1]
          /\ arg' = IF cur.hasPath THEN "path" ELSE "file"
          /\ i' = cur.openParenIndex + 1
          /\ pc' = "skipWhitespace"
  /\ UNCHANGED <<text, tokens, p, lastIndex, depth, quote, value, foundComma, result,
                 treeVars, histVars>>

-----------------------------------------------------------------------------
(* extractStringArg *)

SkipWhitespaceStep ==
  /\ pc = "skipWhitespace"
  /\ i < Len(text) /\ (IsSpace(CharAt(text, i)) \/ CharAt(text, i) = ",")
  /\ i' = i + 1
  /\ UNCHANGED <<text, pc, tokens, p, lastIndex, cur, depth, quote, value, foundComma,
                 arg, result, treeVars, histVars>>

\* the skipping loop ends: return null, or skip the opening quote
SkipWhitespaceEnd ==
  /\ pc = "skipWhitespace"
  /\ ~(i < Len(text) /\ (IsSpace(CharAt(text, i)) \/ CharAt(text, i) = ","))
  /\ IF i >= Len(text) \/ (CharAt(text, i) # "\"" /\ CharAt(text, i) # "'")
     THEN /\ result' = null
          /\ pc' = "extractReturn"
          /\ UNCHANGED <<i, quote, value>>
     ELSE /\ quote' = CharAt(text, i)
          /\ i' = i + 1
          /\ value' = <<>>
          /\ pc' = "readString"
          /\ UNCHANGED result
  /\ UNCHANGED <<text, tokens, p, lastIndex, cur, depth, foundComma, arg, treeVars,
                 histVars>>

ReadStringStep ==
  /\ pc = "readString"
  /\ i < Len(text) /\ CharAt(text, i) # quote
  /\ IF CharAt(text, i) = "\\" /\ i + 1 < Len(text)
     THEN value' = Append(value, CharAt(text, i + 1)) /\ i' = i + 2
     ELSE value' = Append(value, CharAt(text, i)) /\ i' = i + 1
  /\ UNCHANGED <<text, pc, tokens, p, lastIndex, cur, depth, quote, foundComma, arg,
                 result, treeVars, histVars>>

ReadStringEnd ==
  /\ pc = "readString"
  /\ ~(i < Len(text) /\ CharAt(text, i) # quote)
  /\ result' = IF i >= Len(text) THEN null ELSE [value |-> value, endIndex |-> i + 1]
  /\ pc' = "extractReturn"
  /\ UNCHANGED <<text, tokens, p, lastIndex, cur, i, depth, quote, value, foundComma,
                 arg, treeVars, histVars>>

\* mutant: a missing path argument ends the scan instead of skipping the match
PathArgReturn_break ==
  /\ pc = "extractReturn"
  /\ arg = "path"
  /\ IF result = null
     THEN /\ pc' = "sort"
          /\ UNCHANGED <<cur, i, arg, foundComma>>
     ELSE IF cur.type = "route" \/ cur.type = "layout" \/ cur.type = "index"
     THEN /\ cur' = [cur EXCEPT !.path = result.value,
                                !.afterPathIndex = result.endIndex]
          /\ arg' = "file"
          /\ i' = result.endIndex
          /\ pc' = "skipWhitespace"
          /\ UNCHANGED foundComma
     ELSE /\ cur' = [cur EXCEPT !.path = result.value,
                                !.afterPathIndex = result.endIndex,
                                !.afterFileIndex = result.endIndex]
          /\ i' = result.endIndex
          /\ foundComma' = FALSE
          /\ pc' = "findChildrenArray"
          /\ UNCHANGED arg
  /\ UNCHANGED <<text, tokens, p, lastIndex, depth, quote, value, result, treeVars,
                 histVars>>

\* parseRouteTokens takes the path argument: continue when it is missing,
\* else go on to the file argument or to the children array
PathArgReturn ==
  /\ pc = "extractReturn"
  /\ arg = "path"
  /\ IF result = null
     THEN /\ pc' = "exec"
          /\ UNCHANGED <<cur, i, arg, foundComma>>
     ELSE IF cur.type = "route" \/ cur.type = "layout" \/ cur.type = "index"
     THEN /\ cur' = [cur EXCEPT !.path = result.value,
                                !.afterPathIndex = result.endIndex]
          /\ arg' = "file"
          /\ i' = result.endIndex
          /\ pc' = "skipWhitespace"
          /\ UNCHANGED foundComma
     ELSE /\ cur' = [cur EXCEPT !.path = result.value,
                                !.afterPathIndex = result.endIndex,
                                !.afterFileIndex = result.endIndex]
          /\ i' = result.endIndex
          /\ foundComma' = FALSE
          /\ pc' = "findChildrenArray"
          /\ UNCHANGED arg
  /\ UNCHANGED <<text, tokens, p, lastIndex, depth, quote, value, result, treeVars,
                 histVars>>

\* parseRouteTokens takes the optional file argument and looks for the
\* children array of a route or layout
FileArgReturn ==
  /\ pc = "extractReturn"
  /\ arg = "file"
  /\ LET afterFileIndex == IF result # null THEN result.endIndex
                           ELSE cur.afterPathIndex
     IN /\ cur' = [cur EXCEPT !.afterFileIndex = afterFileIndex]
        /\ IF cur.type = "route" \/ cur.type = "layout"
           THEN /\ i' = afterFileIndex
                /\ foundComma' = FALSE
                /\ pc' = "findChildrenArray"
           ELSE /\ pc' = "push"
                /\ UNCHANGED <<i, foundComma>>
  /\ UNCHANGED <<text, tokens, p, lastIndex, depth, quote, value, arg, result,
                 treeVars, histVars>>

-----------------------------------------------------------------------------
(* findChildrenArray *)

isSpread(txt, at) == substring(txt, at, at + 3) = <<".", ".", ".">>

\* mutant: the spread marker is recognised but the cursor is not advanced
FindChildrenArrayStep_spreadNoAdvance ==
  /\ pc = "findChildrenArray"
  /\ i < cur.closeParenIndex
  /\ LET c == CharAt(text, i) IN
     IF c = ","
     THEN foundComma' = TRUE /\ i' = i + 1 /\ UNCHANGED <<cur, pc>>
     ELSE IF c = "[" /\ foundComma
     THEN cur' = [cur EXCEPT !.childrenStart = i] /\ pc' = "push"
          /\ UNCHANGED <<i, foundComma>>
     ELSE IF ~IsSpace(c) /\ c # "," /\ isSpread(text, i)
     THEN UNCHANGED <<i, cur, pc, foundComma>>
     ELSE i' = i + 1 /\ UNCHANGED <<cur, pc, foundComma>>
  /\ UNCHANGED <<text, tokens, p, lastIndex, depth, quote, value, arg, result,
                 treeVars, histVars>>

FindChildrenArrayStep ==
  /\ pc = "findChildrenArray"
  /\ i < cur.closeParenIndex
  /\ LET c == CharAt(text, i) IN
     IF c = ","
     THEN foundComma' = TRUE /\ i' = i + 1 /\ UNCHANGED <<cur, pc>>
     ELSE IF c = "[" /\ foundComma
     THEN cur' = [cur EXCEPT !.childrenStart = i] /\ pc' = "push"
          /\ UNCHANGED <<i, foundComma>>
     ELSE IF ~IsSpace(c) /\ c # "," /\ isSpread(text, i)
     THEN i' = i + 3 /\ UNCHANGED <<cur, pc, foundComma>>
     ELSE i' = i + 1 /\ UNCHANGED <<cur, pc, foundComma>>
  /\ UNCHANGED <<text, tokens, p, lastIndex, depth, quote, value, arg, result,
                 treeVars, histVars>>

\* return null
FindChildrenArrayEnd ==
  /\ pc = "findChildrenArray"
  /\ ~(i < cur.closeParenIndex)
  /\ cur' = [cur EXCEPT !.childrenStart = -1]
  /\ pc' = "push"
  /\ UNCHANGED <<text, tokens, p, lastIndex, i, depth, quote, value, foundComma, arg,
                 result, treeVars, histVars>>

-----------------------------------------------------------------------------
(* parseRouteTokens: tokens.push and the final sort *)

\* childrenStartIndex is -1 where the source leaves it undefined
Push ==
  /\ pc = "push"
  /\ tokens' = Append(tokens,
       [type |-> cur.type, path |-> cur.path, startIndex |-> cur.startIndex,
        endIndex |-> cur.closeParenIndex, hasChildren |-> cur.childrenStart # -1,
        childrenStartIndex |-> cur.childrenStart])
  /\ pc' = "exec"
  /\ UNCHANGED <<text, scanVars, treeVars, histVars>>

\* tokens.sort((a, b) => a.startIndex - b.startIndex), a stable sort
RECURSIVE insertSorted(_, _)
insertSorted(sorted, tok) ==
  IF sorted = <<>> THEN <<tok>>
  ELSE IF sorted[Len(sorted)].startIndex <= tok.startIndex THEN Append(sorted, tok)
  ELSE Append(insertSorted(SubSeq(sorted, 1, Len(sorted) - 1), tok), sorted[Len(sorted)])

RECURSIVE sortByStartIndex(_, _)
sortByStartIndex(toks, n) ==
  IF n = 0 THEN <<>> ELSE insertSorted(sortByStartIndex(toks, n - 1), toks[n])

Sort ==
  /\ pc = "sort"
  /\ tokens' = sortByStartIndex(tokens, Len(tokens))
  /\ pc' = "buildTree"
  /\ UNCHANGED <<text, scanVars, treeVars, histVars>>

-----------------------------------------------------------------------------
(* parseRoutesFile: buildTree.  Nodes are the 1-based positions of the     *)
(* token stream; parent 0 is "no parent".                                   *)

\* mutant: the end of the node is not compared with the end of the parent
containsNode_startOnly(toks, j, n) ==
  /\ toks[j].hasChildren
  /\ toks[j].childrenStartIndex # -1
  /\ toks[n].startIndex > toks[j].childrenStartIndex

\* the condition that makes nodes[j] a potential parent of nodes[n]
containsNode(toks, j, n) ==
  /\ toks[j].hasChildren
  /\ toks[j].childrenStartIndex # -1
  /\ toks[n].startIndex > toks[j].childrenStartIndex
  /\ toks[n].endIndex <= toks[j].endIndex

\* the for loop over k: no node between j and n contains n
isClosestParent(toks, j, n) ==
  \A k \in (j + 1)..(n - 1) : ~containsNode(toks, k, n)

\* the for loop over j, from n - 1 down to the first node
RECURSIVE findParent(_, _, _)
findParent(toks, n, j) ==
  IF j < 1 THEN 0
  ELSE IF containsNode(toks, j, n) /\ isClosestParent(toks, j, n) THEN j
  ELSE findParent(toks, n, j - 1)

buildTreeParent(toks) == [n \in 1..Len(toks) |-> findParent(toks, n, n - 1)]

RECURSIVE selectNodes(_, _, _)
selectNodes(par, up, n) ==
  IF n = 0 THEN <<>>
  ELSE IF par[n] = up THEN Append(selectNodes(par, up, n - 1), n)
  ELSE selectNodes(par, up, n - 1)

\* node.children in push order; childrenOf(par, 0) is roots
childrenOf(par, up) == selectNodes(par, up, Len(par))

BuildTree ==
  /\ pc = "buildTree"
  /\ parent' = buildTreeParent(tokens)
  /\ roots' = childrenOf(buildTreeParent(tokens), 0)
  /\ rootIdx' = 1
  /\ pc' = "roots"
  /\ UNCHANGED <<text, tokens, scanVars, routes, stack, current, pathParts, histVars>>

-----------------------------------------------------------------------------
(* parseRoutesFile: the loop over roots, traverse and calculateFullPath *)

\* for (const root of roots) traverse(root)
NextRoot ==
  /\ pc = "roots"
  /\ rootIdx <= Len(roots)
  /\ stack' = <<[node |-> roots[rootIdx], child |-> 1]>>
  /\ rootIdx' = rootIdx + 1
  /\ pc' = "traverse"
  /\ UNCHANGED <<text, tokens, scanVars, parent, roots, routes, current, pathParts,
                 histVars>>

\* return routes
Return ==
  /\ pc = "roots"
  /\ rootIdx > Len(roots)
  /\ pc' = "done"
  /\ UNCHANGED <<text, tokens, scanVars, treeVars, histVars>>

\* traverse(node) calls calculateFullPath(node)
TraverseEnter ==
  /\ pc = "traverse"
  /\ current' = stack[Len(stack)].node
  /\ pathParts' = <<>>
  /\ pc' = "calculateFullPath"
  /\ UNCHANGED <<text, tokens, scanVars, parent, roots, routes, rootIdx, stack, histVars>>

\* mutant: pathParts.push instead of pathParts.unshift
ParentWalkStep_push ==
  /\ pc = "calculateFullPath"
  /\ current # 0
  /\ pathParts' = IF tokens[current].type # "layout" /\ tokens[current].path # <<>>
                  THEN Append(pathParts, tokens[current].path)
                  ELSE pathParts
  /\ current' = parent[current]
  /\ UNCHANGED <<text, pc, tokens, scanVars, parent, roots, routes, rootIdx, stack,
                 histVars>>

\* one turn of while (current)
ParentWalkStep ==
  /\ pc = "calculateFullPath"
  /\ current # 0
  /\ pathParts' = IF tokens[current].type # "layout" /\ tokens[current].path # <<>>
                  THEN <<tokens[current].path>> \o pathParts
                  ELSE pathParts
  /\ current' = parent[current]
  /\ UNCHANGED <<text, pc, tokens, scanVars, parent, roots, routes, rootIdx, stack,
                 histVars>>

RECURSIVE join(_, _)
join(parts, sep) ==
  IF parts = <<>> THEN <<>>
  ELSE IF Len(parts) = 1 THEN parts[1]
  ELSE join(SubSeq(parts, 1, Len(parts) - 1), sep) \o sep \o parts[Len(parts)]

\* s.replace(/\/+/g, '/')
RECURSIVE collapseSlashes(_)
collapseSlashes(s) ==
  IF Len(s) < 2 THEN s
  ELSE IF s[1] = "/" /\ s[2] = "/" THEN collapseSlashes(Tail(s))
  ELSE <<s[1]>> \o collapseSlashes(Tail(s))

\* s.replace(/^\/+/, '')
RECURSIVE stripLeadingSlashes(_)
stripLeadingSlashes(s) ==
  IF s # <<>> /\ s[1] = "/" THEN stripLeadingSlashes(Tail(s)) ELSE s

\* mutant: the runs of slashes are not collapsed
combinePathParts_noCollapse(parts) ==
  <<"/">> \o stripLeadingSlashes(join(parts, <<"/">>))

\* the two statements of calculateFullPath after the loop
combinePathParts(parts) ==
  LET combined == collapseSlashes(join(parts, <<"/">>))
  IN <<"/">> \o stripLeadingSlashes(combined)

\* the record traverse pushes for a node with the given fullPath
routeInfo(txt, tok, full) ==
  LET fullPath == IF full = <<>> THEN <<"/">> ELSE full
      line     == getLineFromIndex(txt, tok.startIndex)
      col      == getColumnFromIndex(txt, tok.startIndex)
  IN [type |-> tok.type, path |-> tok.path, fullPath |-> fullPath, line |-> line,
      range |-> [startLine |-> line, startCol |-> col, endLine |-> line,
                 endCol |-> col + Len(Keyword(tok.type))]]

\* mutant: the record is pushed for a prefix node too
Emit_withPrefix ==
  /\ pc = "calculateFullPath"
  /\ current = 0
  /\ routes' = Append(routes, routeInfo(text, tokens[stack[Len(stack)].node],
                                        combinePathParts(pathParts)))
  /\ pc' = "children"
  /\ UNCHANGED <<text, tokens, scanVars, parent, roots, rootIdx, stack, current,
                 pathParts, histVars>>

\* calculateFullPath returns; traverse pushes the record unless the node is
\* a prefix
Emit ==
  /\ pc = "calculateFullPath"
  /\ current = 0
  /\ LET tok == tokens[stack[Len(stack)].node] IN
     routes' = IF tok.type # "prefix"
               THEN Append(routes, routeInfo(text, tok, combinePathParts(pathParts)))
               ELSE routes
  /\ pc' = "children"
  /\ UNCHANGED <<text, tokens, scanVars, parent, roots, rootIdx, stack, current,
                 pathParts, histVars>>

\* for (const child of node.children) traverse(child)
TraverseChild ==
  /\ pc = "children"
  /\ LET top  == stack[Len(stack)]
         kids == childrenOf(parent, top.node)
     IN /\ top.child <= Len(kids)
        /\ stack' = Append([stack EXCEPT ![Len(stack)].child = top.child + 1],
                           [node |-> kids[top.child], child |-> 1])
  /\ pc' = "traverse"
  /\ UNCHANGED <<text, tokens, scanVars, parent, roots, routes, rootIdx, current,
                 pathParts, histVars>>

\* traverse(node) returns to its caller
TraverseReturn ==
  /\ pc = "children"
  /\ LET top  == stack[Len(stack)]
         kids == childrenOf(parent, top.node)
     IN top.child > Len(kids)
  /\ stack' = SubSeq(stack, 1, Len(stack) - 1)
  /\ pc' = IF Len(stack) = 1 THEN "roots" ELSE "children"
  /\ UNCHANGED <<text, tokens, scanVars, parent, roots, routes, rootIdx, current,
                 pathParts, histVars>>

-----------------------------------------------------------------------------
(* Input texts: route files in the syntax of the README example *)

MaxNest == 2

Quoted(q, s) == <<q>> \o s \o <<q>>

FileArg == Quoted("'", <<"f">>)

\* one construct call; kids is the text between the brackets of its array
CallText(type, seg, hasKids, kids) ==
  Keyword(type) \o <<"(">>
    \o (IF type \in {"route", "prefix"} THEN Quoted("'", seg) ELSE <<>>)
    \o (IF type = "route" THEN <<",">> ELSE <<>>)
    \o (IF type # "prefix" THEN FileArg ELSE <<>>)
    \o (IF hasKids THEN <<",", "[">> \o kids \o <<"]">> ELSE <<>>)
    \o <<")">>

LeafSegs == { <<"a">>, <<"/", "b">>, <<"c", "/">>, <<>>, <<"/", "/">> }

ParentSegs == { <<"d">>, <<"/", "e", "/">> }

LeafTexts ==
  {CallText("route", s, FALSE, <<>>) : s \in LeafSegs}
    \cup {CallText("index", <<>>, FALSE, <<>>), CallText("layout", <<>>, FALSE, <<>>)}

\* a parent whose array holds an index, a nested construct and a route
Wrap(type, seg, kid) ==
  CallText(type, seg, TRUE,
           CallText("index", <<>>, FALSE, <<>>) \o <<",">> \o kid \o <<",">>
             \o CallText("route", <<"s">>, FALSE, <<>>))

RECURSIVE NestedTexts(_)
NestedTexts(d) ==
  IF d = 0 THEN LeafTexts
  ELSE LET inner == NestedTexts(d - 1) IN
       inner
         \cup {Wrap("route", s, k) : s \in ParentSegs, k \in inner}
         \cup {Wrap("prefix", s, k) : s \in ParentSegs, k \in inner}
         \cup {Wrap("layout", <<>>, k) : k \in inner}

\* index('./home.tsx')
ExampleIndexAlone ==
  <<"i", "n", "d", "e", "x", "(", "'", ".", "/", "h", "o", "m", "e", ".",
    "t", "s", "x", "'", ")">>

\* route('about', './about.tsx')
ExampleAbout ==
  <<"r", "o", "u", "t", "e", "(", "'", "a", "b", "o", "u", "t", "'", ",",
    " ", "'", ".", "/", "a", "b", "o", "u", "t", ".", "t", "s", "x", "'", ")">>

\* prefix('dashboard', [ index('./d/home.tsx'), route('settings', './d/settings.tsx') ])
ExampleDashboard ==
  <<"p", "r", "e", "f", "i", "x", "(", "'", "d", "a", "s", "h", "b", "o",
    "a", "r", "d", "'", ",", " ", "[", " ", "i", "n", "d", "e", "x", "(",
    "'", ".", "/", "d", "/", "h", "o", "m", "e", ".", "t", "s", "x", "'",
    ")", ",", " ", "r", "o", "u", "t", "e", "(", "'", "s", "e", "t", "t",
    "i", "n", "g", "s", "'", ",", " ", "'", ".", "/", "d", "/", "s", "e",
    "t", "t", "i", "n", "g", "s", ".", "t", "s", "x", "'", ")", " ", "]", ")">>

\* layout('./layout.tsx', [ route('x', './x.tsx') ])
ExampleLayout ==
  <<"l", "a", "y", "o", "u", "t", "(", "'", ".", "/", "l", "a", "y", "o",
    "u", "t", ".", "t", "s", "x", "'", ",", " ", "[", " ", "r", "o", "u",
    "t", "e", "(", "'", "x", "'", ",", " ", "'", ".", "/", "x", ".", "t",
    "s", "x", "'", ")", " ", "]", ")">>

\* [ index('./h.tsx'), route('about', './a.tsx'), ...prefix('dash', [ index('./d/h.tsx'), route('set', './d/s.tsx'), ]),]
ExampleReadme ==
  <<"[", "\n", " ", " ", "i", "n", "d", "e", "x", "(", "'", ".", "/", "h",
    ".", "t", "s", "x", "'", ")", ",", "\n", " ", " ", "r", "o", "u", "t",
    "e", "(", "'", "a", "b", "o", "u", "t", "'", ",", " ", "'", ".", "/",
    "a", ".", "t", "s", "x", "'", ")", ",", "\n", "\n", " ", " ", ".", ".",
    ".", "p", "r", "e", "f", "i", "x", "(", "'", "d", "a", "s", "h", "'",
    ",", " ", "[", "\n", " ", " ", " ", " ", "i", "n", "d", "e", "x", "(",
    "'", ".", "/", "d", "/", "h", ".", "t", "s", "x", "'", ")", ",", "\n",
    " ", " ", " ", " ", "r", "o", "u", "t", "e", "(", "'", "s", "e", "t",
    "'", ",", " ", "'", ".", "/", "d", "/", "s", ".", "t", "s", "x", "'",
    ")", ",", "\n", " ", " ", "]", ")", ",", "\n", "]">>

\* route('a','f',[...prefix('x',[index('h')])])
ExampleSpreadInArray ==
  <<"r", "o", "u", "t", "e", "(", "'", "a", "'", ",", "'", "f", "'", ",",
    "[", ".", ".", ".", "p", "r", "e", "f", "i", "x", "(", "'", "x", "'",
    ",", "[", "i", "n", "d", "e", "x", "(", "'", "h", "'", ")", "]", ")",
    "]", ")">>

\* layout('./l.tsx', ...prefix('x', [index('./h.tsx')]))
ExampleSpreadInCall ==
  <<"l", "a", "y", "o", "u", "t", "(", "'", ".", "/", "l", ".", "t", "s",
    "x", "'", ",", " ", ".", ".", ".", "p", "r", "e", "f", "i", "x", "(",
    "'", "x", "'", ",", " ", "[", "i", "n", "d", "e", "x", "(", "'", ".",
    "/", "h", ".", "t", "s", "x", "'", ")", "]", ")", ")">>

\* prefix("p",["index(\\""])
ExampleKeywordInString ==
  <<"p", "r", "e", "f", "i", "x", "(", "\"", "p", "\"", ",", "[", "\"", "i",
    "n", "d", "e", "x", "(", "\\", "\"", "\"", "]", ")">>

Examples ==
  {ExampleIndexAlone,
   ExampleAbout,
   ExampleDashboard,
   ExampleLayout,
   ExampleReadme,
   ExampleSpreadInArray,
   ExampleSpreadInCall,
   ExampleKeywordInString}

Texts == NestedTexts(MaxNest) \cup Examples


\* arbitrary input: every concatenation of at most MaxFrags lexical fragments,
\* and every truncation of some well-formed texts
MaxFrags == 3

Fragments ==
  { Keyword("route") \o <<"(">>, Keyword("layout") \o <<"(">>,
    <<"'">>, <<"\\">>, <<")">>, <<",", "[">>, <<".", ".", ".">> }

RECURSIVE FragmentTexts(_)
FragmentTexts(n) ==
  IF n = 0 THEN {<<>>}
  ELSE LET shorter == FragmentTexts(n - 1) IN
       shorter \cup {t \o f : t \in shorter, f \in Fragments}

Truncations(txt) == {SubSeq(txt, 1, n) : n \in 0..Len(txt)}

ScanTexts ==
  FragmentTexts(MaxFrags)
    \cup Truncations(ExampleSpreadInCall)
    \cup Truncations(ExampleKeywordInString)
    \cup Truncations(ExampleSpreadInArray)

-----------------------------------------------------------------------------
(* One parse of one snapshot: parseRoutesFile(document) *)

noEdit == [kind |-> "none", at |-> -1, removed |-> 0, inserted |-> 0, target |-> 0]

noBase == [text |-> <<>>, tokens |-> <<>>, parent |-> <<>>, routes |-> <<>>]

\* the state in which parseRoutesFile(document) starts on a snapshot
Start(txt) ==
  /\ text = txt
  /\ pc = "exec"
  /\ tokens = <<>>
  /\ p = 1
  /\ lastIndex = 0
  /\ cur = noMatch
  /\ i = 0
  /\ depth = 0
  /\ quote = ""
  /\ value = <<>>
  /\ foundComma = FALSE
  /\ arg = ""
  /\ result = null
  /\ parent = <<>>
  /\ roots = <<>>
  /\ routes = <<>>
  /\ rootIdx = 1
  /\ stack = <<>>
  /\ current = 0
  /\ pathParts = <<>>

Init ==
  /\ \E txt \in Texts : Start(txt)
  /\ base = noBase
  /\ edit = noEdit

ParseRouteTokens ==
  \/ ExecMatch \/ ExecNoMatch
  \/ FindMatchingParenStep \/ SkipStringStep \/ SkipStringEnd \/ FindMatchingParenReturn
  \/ SkipWhitespaceStep \/ SkipWhitespaceEnd \/ ReadStringStep \/ ReadStringEnd
  \/ PathArgReturn \/ FileArgReturn
  \/ FindChildrenArrayStep \/ FindChildrenArrayEnd
  \/ Push \/ Sort

ParseRoutesFile ==
  \/ ParseRouteTokens
  \/ BuildTree
  \/ NextRoot \/ TraverseEnter \/ ParentWalkStep \/ Emit \/ TraverseChild
  \/ TraverseReturn \/ Return

Next == ParseRoutesFile

Spec == Init /\ [][Next]_vars

Done == pc = "done"

\* the parse of arbitrary input.  parseRoutesFile is synchronous code that the
\* host runs to completion, so a step that can be taken is taken
InitScan ==
  /\ \E txt \in ScanTexts : Start(txt)
  /\ base = noBase
  /\ edit = noEdit

SpecScan == InitScan /\ [][Next]_vars /\ WF_vars(Next)

-----------------------------------------------------------------------------
(* Editing the document.  The provider fires onDidChangeCodeLenses on every *)
(* change of the text and parseRoutesFile then runs on the new snapshot.    *)
(* base keeps the outcome of the parse before the change, edit the change.  *)

MaxWs == 2

\* documents as sequences of lexical elements: construct names, parentheses,
\* brackets, commas, spread markers and string literals
\* prefix('d',[route('a','f'),index('h')])
DocNested ==
  << Keyword("prefix"), <<"(">>, <<"'", "d", "'">>, <<",">>, <<"[">>,
     Keyword("route"), <<"(">>, <<"'", "a", "'">>, <<",">>,
     <<"'", "f", "'">>, <<")">>, <<",">>, Keyword("index"), <<"(">>,
     <<"'", "h", "'">>, <<")">>, <<"]">>, <<")">> >>

\* route('a','f'),layout('l',[route('b','g')]),route("c","k")
DocSiblings ==
  << Keyword("route"), <<"(">>, <<"'", "a", "'">>, <<",">>,
     <<"'", "f", "'">>, <<")">>, <<",">>, Keyword("layout"), <<"(">>,
     <<"'", "l", "'">>, <<",">>, <<"[">>, Keyword("route"), <<"(">>,
     <<"'", "b", "'">>, <<",">>, <<"'", "g", "'">>, <<")">>, <<"]">>,
     <<")">>, <<",">>, Keyword("route"), <<"(">>, <<"\"", "c", "\"">>,
     <<",">>, <<"\"", "k", "\"">>, <<")">> >>

\* route('a','f',[...prefix('x',[index('h')])])
DocSpread ==
  << Keyword("route"), <<"(">>, <<"'", "a", "'">>, <<",">>,
     <<"'", "f", "'">>, <<",">>, <<"[">>, <<".", ".", ".">>,
     Keyword("prefix"), <<"(">>, <<"'", "x", "'">>, <<",">>, <<"[">>,
     Keyword("index"), <<"(">>, <<"'", "h", "'">>, <<")">>, <<"]">>, <<")">>,
     <<"]">>, <<")">> >>

\* prefix('d',[route('a0b','f'),route('x','g')]): the digits 0 and 1 in a
\* string stand for the places where ParenInString puts ( and )
DocDigits ==
  << Keyword("prefix"), <<"(">>, <<"'", "d", "'">>, <<",">>, <<"[">>,
     Keyword("route"), <<"(">>, <<"'", "a", "0", "b", "'">>, <<",">>,
     <<"'", "f", "'">>, <<")">>, <<",">>, Keyword("route"), <<"(">>,
     <<"'", "x", "'">>, <<",">>, <<"'", "g", "'">>, <<")">>, <<"]">>,
     <<")">> >>

\* prefix("p",[route("prefix0'a',[0\"","f"),route("x","g")])
DocKeywordDigits ==
  << Keyword("prefix"), <<"(">>, <<"\"", "p", "\"">>, <<",">>, <<"[">>,
     Keyword("route"), <<"(">>,
     <<"\"", "p", "r", "e", "f", "i", "x", "0", "'", "a", "'", ",", "[", "0", "\\", "\"", "\"">>,
     <<",">>, <<"\"", "f", "\"">>, <<")">>, <<",">>, Keyword("route"),
     <<"(">>, <<"\"", "x", "\"">>, <<",">>, <<"\"", "g", "\"">>, <<")">>,
     <<"]">>, <<")">> >>

Documents == {DocNested, DocSiblings, DocSpread, DocDigits, DocKeywordDigits}

RECURSIVE Flatten(_)
Flatten(lexemes) ==
  IF lexemes = <<>> THEN <<>> ELSE Head(lexemes) \o Flatten(Tail(lexemes))

\* the offset of the k-th lexical element (of the end of the text for the
\* index after the last)
RECURSIVE OffsetOf(_, _)
OffsetOf(lexemes, k) ==
  IF k = 1 THEN 0 ELSE OffsetOf(lexemes, k - 1) + Len(lexemes[k - 1])

LexemesOf(txt) == CHOOSE lexemes \in Documents : Flatten(lexemes) = txt

IsString(lexeme) == lexeme[1] \in {"'", "\""}

HasDigit(lexeme) == \E k \in 1..Len(lexeme) : lexeme[k] \in {"0", "1"}

WithParens(lexeme) ==
  [k \in 1..Len(lexeme) |->
     IF lexeme[k] = "0" THEN "(" ELSE IF lexeme[k] = "1" THEN ")" ELSE lexeme[k]]

WhitespaceRuns == {[k \in 1..n |-> c] : c \in {" ", "\t", "\n"}, n \in 1..MaxWs}

\* the innermost call of toks whose span holds the offset at
InnermostCall(toks, at) ==
  LET holding == {n \in 1..Len(toks) :
                    toks[n].startIndex < at /\ at <= toks[n].endIndex}
  IN IF holding = {} THEN 0
     ELSE CHOOSE n \in holding :
            \A m \in holding : toks[m].startIndex <= toks[n].startIndex

\* txt with removed characters at offset at replaced by inserted
Splice(txt, at, removed, inserted) ==
  SubSeq(txt, 1, at) \o inserted \o SubSeq(txt, at + removed + 1, Len(txt))

\* parseRoutesFile(document) starts again on the snapshot txt
Restart(txt) ==
  /\ text' = txt
  /\ pc' = "exec"
  /\ tokens' = <<>>
  /\ p' = 1
  /\ lastIndex' = 0
  /\ cur' = noMatch
  /\ i' = 0
  /\ depth' = 0
  /\ quote' = ""
  /\ value' = <<>>
  /\ foundComma' = FALSE
  /\ arg' = ""
  /\ result' = null
  /\ parent' = <<>>
  /\ roots' = <<>>
  /\ routes' = <<>>
  /\ rootIdx' = 1
  /\ stack' = <<>>
  /\ current' = 0
  /\ pathParts' = <<>>

\* the document changes once, after the first parse has returned
Change(kind, at, removed, inserted, target) ==
  /\ base' = [text |-> text, tokens |-> tokens, parent |-> parent, routes |-> routes]
  /\ edit' = [kind |-> kind, at |-> at, removed |-> removed,
              inserted |-> Len(inserted), target |-> target]
  /\ Restart(Splice(text, at, removed, inserted))

\* the closing parenthesis of one call is deleted
Unclose ==
  /\ pc = "done" /\ edit = noEdit
  /\ \E lexemes \in {LexemesOf(text)} : \E k \in 1..Len(lexemes) :
       /\ lexemes[k] = <<")">>
       /\ \E at \in {OffsetOf(lexemes, k)} :
            Change("unclosed", at, 1, <<>>, InnermostCall(tokens, at))

\* the leading string argument of a route or prefix call is replaced by an
\* identifier
DropPathArg ==
  /\ pc = "done" /\ edit = noEdit
  /\ \E lexemes \in {LexemesOf(text)} : \E k \in 3..Len(lexemes) :
       /\ IsString(lexemes[k])
       /\ lexemes[k - 1] = <<"(">>
       /\ lexemes[k - 2] \in {Keyword("route"), Keyword("prefix")}
       /\ \E at \in {OffsetOf(lexemes, k)} :
            Change("noPathArg", at, Len(lexemes[k]), <<"x">>, InnermostCall(tokens, at))

\* the closing quote of one string argument is deleted
Unterminate ==
  /\ pc = "done" /\ edit = noEdit
  /\ \E lexemes \in {LexemesOf(text)} : \E k \in 1..Len(lexemes) :
       /\ IsString(lexemes[k])
       /\ \E at \in {OffsetOf(lexemes, k)} :
            Change("unterminated", at + Len(lexemes[k]) - 1, 1, <<>>,
                   InnermostCall(tokens, at))

\* a run of whitespace is inserted between two lexical elements, before the
\* first or after the last
InsertWhitespace ==
  /\ pc = "done" /\ edit = noEdit
  /\ \E lexemes \in {LexemesOf(text)} : \E k \in 1..(Len(lexemes) + 1) :
       \E run \in WhitespaceRuns :
         Change("whitespace", OffsetOf(lexemes, k), 0, run, 0)

\* a run of whitespace is inserted after every lexical element
Reformat ==
  /\ pc = "done" /\ edit = noEdit
  /\ \E lexemes \in {LexemesOf(text)} : \E run \in WhitespaceRuns :
       /\ base' = [text |-> text, tokens |-> tokens, parent |-> parent,
                   routes |-> routes]
       /\ edit' = [noEdit EXCEPT !.kind = "reformat"]
       /\ Restart(Flatten([k \in 1..Len(lexemes) |-> lexemes[k] \o run]))

\* parentheses are typed into the string arguments, at the places of the
\* digits
ParenInString ==
  /\ pc = "done" /\ edit = noEdit
  /\ \E lexemes \in {LexemesOf(text)} :
       /\ \E k \in 1..Len(lexemes) : IsString(lexemes[k]) /\ HasDigit(lexemes[k])
       /\ base' = [text |-> text, tokens |-> tokens, parent |-> parent,
                   routes |-> routes]
       /\ edit' = [noEdit EXCEPT !.kind = "parenInString"]
       /\ Restart(Flatten([k \in 1..Len(lexemes) |->
                             IF IsString(lexemes[k]) THEN WithParens(lexemes[k])
                             ELSE lexemes[k]]))

DidChangeTextDocument ==
  \/ Unclose \/ DropPathArg \/ Unterminate
  \/ InsertWhitespace \/ Reformat
  \/ ParenInString

InitEdit ==
  /\ \E lexemes \in Documents : Start(Flatten(lexemes))
  /\ base = noBase
  /\ edit = noEdit

NextEdit == ParseRoutesFile \/ DidChangeTextDocument

SpecEdit == InitEdit /\ [][NextEdit]_vars

-----------------------------------------------------------------------------
(* What the claims speak of *)

\* the token a record was emitted for: the one that starts at its line and column
NodeOf(rec) ==
  CHOOSE n \in 1..Len(tokens) :
    /\ tokens[n].type = rec.type
    /\ getLineFromIndex(text, tokens[n].startIndex) = rec.line
    /\ getColumnFromIndex(text, tokens[n].startIndex) = rec.range.startCol

\* the nodes from the root ancestor of n down to n
RECURSIVE ChainOf(_)
ChainOf(n) == IF n = 0 THEN <<>> ELSE Append(ChainOf(parent[n]), n)

\* the declared segments of the non-layout nodes of a chain, the empty ones
\* among them when withEmpty
RECURSIVE SegmentsOf(_, _)
SegmentsOf(chain, withEmpty) ==
  IF chain = <<>> THEN <<>>
  ELSE LET front == SegmentsOf(SubSeq(chain, 1, Len(chain) - 1), withEmpty)
           n     == chain[Len(chain)]
       IN IF tokens[n].type # "layout" /\ (withEmpty \/ tokens[n].path # <<>>)
          THEN Append(front, tokens[n].path) ELSE front

RECURSIVE SlashJoin(_)
SlashJoin(segs) ==
  IF segs = <<>> THEN <<>>
  ELSE IF Len(segs) = 1 THEN segs[1]
  ELSE segs[1] \o <<"/">> \o SlashJoin(Tail(segs))

\* the maximal slash-free runs of s, in order
RECURSIVE SlashWords(_)
SlashWords(s) ==
  IF s = <<>> THEN <<>>
  ELSE LET front == SlashWords(SubSeq(s, 1, Len(s) - 1))
           c     == s[Len(s)]
       IN IF c = "/" THEN front
          ELSE IF Len(s) > 1 /\ s[Len(s) - 1] # "/"
               THEN [front EXCEPT ![Len(front)] = Append(front[Len(front)], c)]
               ELSE Append(front, <<c>>)

\* s with every run of slashes collapsed, leading slashes stripped and one
\* slash prepended
Normalized(s) ==
  LET words == SlashWords(s) IN
  IF words = <<>> THEN <<"/">>
  ELSE <<"/">> \o SlashJoin(words) \o (IF s[Len(s)] = "/" THEN <<"/">> ELSE <<>>)

Records == {routes[r] : r \in 1..Len(routes)}

\* C1 as stated: the fullPath of every record is the normalized slash-join of
\* the declared segments of all non-layout nodes on its chain, root to node
C1_FullPathOfAllSegments ==
  Done => \A rec \in Records :
    rec.fullPath = Normalized(SlashJoin(SegmentsOf(ChainOf(NodeOf(rec)), TRUE)))

\* C1 amended: the fullPath of every record is the normalized slash-join of
\* the non-empty declared segments of the non-layout nodes on its chain, root
\* to node; "/" when there is none
C1_FullPathOfNonEmptySegments ==
  Done =>
    /\ \A rec \in Records :
         rec.fullPath =
           Normalized(SlashJoin(SegmentsOf(ChainOf(NodeOf(rec)), FALSE)))
    /\ text = ExampleLayout =>
         \E rec \in Records : rec.path = <<"x">> /\ rec.fullPath = <<"/", "x">>

\* a route declared as 'a' inside a layout inside prefix('d', [...]) resolved
\* to "/d/a"
C1_Witness ==
  /\ Done
  /\ \E rec \in Records :
       /\ rec.type = "route" /\ rec.path = <<"a">>
       /\ rec.fullPath = <<"/", "d", "/", "a">>
       /\ Len(ChainOf(NodeOf(rec))) = 3
       /\ tokens[parent[NodeOf(rec)]].type = "layout"
       /\ tokens[parent[parent[NodeOf(rec)]]].type = "prefix"

\* C2: one record for every route, index and layout token, none for a prefix
C2_OneRecordPerNonPrefixToken ==
  Done =>
    /\ \A n \in 1..Len(tokens) :
         Cardinality({r \in 1..Len(routes) :
                        /\ routes[r].type = tokens[n].type
                        /\ routes[r].path = tokens[n].path
                        /\ routes[r].line = getLineFromIndex(text, tokens[n].startIndex)
                        /\ routes[r].range.startCol =
                             getColumnFromIndex(text, tokens[n].startIndex)})
           = IF tokens[n].type = "prefix" THEN 0 ELSE 1
    /\ Len(routes) = Cardinality({n \in 1..Len(tokens) : tokens[n].type # "prefix"})
    /\ \A r \in 1..Len(routes) : routes[r].type # "prefix"
    /\ text = ExampleDashboard => Len(routes) = 2

\* a prefix nested inside another construct, its children emitted, itself not
C2_Witness ==
  /\ Done
  /\ \E n \in 1..Len(tokens) :
       /\ tokens[n].type = "prefix"
       /\ parent[n] # 0
       /\ Cardinality({k \in 1..Len(tokens) : parent[k] = n}) = 3
  /\ Len(routes) >= 5

\* C3: an index or layout node has the fullPath of its parent node, "/" when
\* it is a root, and never a declared segment
C3_IndexAndLayoutResolveToParent ==
  Done =>
    /\ \A rec \in Records :
         rec.type \in {"index", "layout"} =>
           /\ rec.path = <<>>
           /\ rec.fullPath = IF parent[NodeOf(rec)] = 0 THEN <<"/">>
                             ELSE Normalized(SlashJoin(SegmentsOf(
                                    ChainOf(parent[NodeOf(rec)]), FALSE)))
    /\ text = ExampleIndexAlone =>
         Len(routes) = 1 /\ routes[1].type = "index" /\ routes[1].fullPath = <<"/">>

\* an index directly inside prefix('d', [...]) resolved to "/d"
C3_Witness ==
  /\ Done
  /\ \E rec \in Records :
       /\ rec.type = "index"
       /\ parent[NodeOf(rec)] # 0
       /\ tokens[parent[NodeOf(rec)]].type = "prefix"
       /\ tokens[parent[NodeOf(rec)]].path = <<"d">>
       /\ parent[parent[NodeOf(rec)]] = 0
       /\ rec.fullPath = <<"/", "d">>

\* C4: every fullPath starts with "/" and holds no two consecutive slashes
C4_SingleSlashes ==
  Done => \A rec \in Records :
    /\ Len(rec.fullPath) >= 1
    /\ rec.fullPath[1] = "/"
    /\ \A k \in 1..(Len(rec.fullPath) - 1) :
         ~(rec.fullPath[k] = "/" /\ rec.fullPath[k + 1] = "/")

\* a chain whose declared segments bring leading, trailing and doubled slashes
C4_Witness ==
  /\ Done
  /\ \E rec \in Records :
       LET segs == SegmentsOf(ChainOf(NodeOf(rec)), FALSE) IN
       /\ Len(segs) >= 2
       /\ segs[1] = <<"/", "e", "/">>
       /\ segs[Len(segs)] \in {<<"/", "b">>, <<"/", "/">>}

\* the tokens before n that have a children array and hold the span of n
\* between that array's start and their call end; strictly: the end of n is
\* before their call end too
Candidates(n, strictly) ==
  {j \in 1..(n - 1) :
     /\ tokens[j].hasChildren
     /\ tokens[j].childrenStartIndex < tokens[n].startIndex
     /\ IF strictly THEN tokens[n].endIndex < tokens[j].endIndex
        ELSE tokens[n].endIndex <= tokens[j].endIndex}

NearestOf(cands) ==
  IF cands = {} THEN 0 ELSE CHOOSE j \in cands : \A k \in cands : k <= j

IsSpreadTarget(n) ==
  /\ tokens[n].startIndex >= 3
  /\ SubSeq(text, tokens[n].startIndex - 2, tokens[n].startIndex) = <<".", ".", ".">>

\* C8: the children-array start of a call is never a bracket inside a spread
\* target that the call encloses
C8_SpreadArrayIsNotChildrenArray ==
  Done => \A n \in 1..Len(tokens) : \A s \in 1..Len(tokens) :
    ( /\ IsSpreadTarget(s)
      /\ tokens[n].startIndex < tokens[s].startIndex
      /\ tokens[s].endIndex < tokens[n].endIndex
      /\ tokens[n].hasChildren )
    => ~( tokens[s].startIndex < tokens[n].childrenStartIndex
          /\ tokens[n].childrenStartIndex < tokens[s].endIndex )

\* C5: on arbitrary input every scanning loop makes progress: the cursor
\* stays within two characters of the end of the text, and the parse ends
\* with a list of tokens and a list of records
C5_Terminates ==
  /\ <>Done
  /\ [](/\ i >= 0 /\ i <= Len(text) + 2
        /\ depth >= 0
        /\ current \in 0..Len(tokens)
        /\ Len(routes) <= Len(tokens))

\* an unterminated string ran the cursor of findMatchingParen past the end
\* of the text
C5_Witness ==
  /\ pc = "findMatchingParen"
  /\ i > Len(text)
  /\ depth > 0

-----------------------------------------------------------------------------
(* The parse after a change of the document, against the parse before it *)

Defect == edit.kind \in {"unclosed", "noPathArg", "unterminated"}

\* where an offset of the text before the change lies after it
Shift(at) ==
  IF at >= edit.at + edit.removed THEN at - edit.removed + edit.inserted ELSE at

\* call b of the text before the change strictly encloses call t
Encloses(b, t) ==
  /\ base.tokens[b].startIndex < base.tokens[t].startIndex
  /\ base.tokens[t].endIndex < base.tokens[b].endIndex

\* call b of the text before the change is a token after it, with the same
\* kind and segment, at the same place
Survives(b) ==
  \E n \in 1..Len(tokens) :
    /\ tokens[n].type = base.tokens[b].type
    /\ tokens[n].path = base.tokens[b].path
    /\ tokens[n].startIndex = Shift(base.tokens[b].startIndex)
    /\ tokens[n].endIndex = Shift(base.tokens[b].endIndex)

\* a token of the malformed call itself: same kind, at its start offset
TargetEmitted ==
  \E n \in 1..Len(tokens) :
    /\ tokens[n].type = base.tokens[edit.target].type
    /\ tokens[n].startIndex = Shift(base.tokens[edit.target].startIndex)

Others == (1..Len(base.tokens)) \ {edit.target}

\* C6 as stated: when one call is made malformed, exactly that call is
\* missing from the token stream; every other call, whether it precedes,
\* follows or encloses the malformed one, is still a token
C6_OnlyTheMalformedCallIsMissing ==
  (Done /\ Defect) =>
    /\ \A b \in Others : Survives(b)
    /\ ~TargetEmitted
    /\ Len(tokens) = Len(base.tokens) - 1

\* C6, amended: every other call that does not enclose the malformed one is
\* still a token, and no token is gained; a call without its leading string
\* argument is the only one missing.  (A call whose parenthesis or string is
\* left open can take the calls that enclose it with it, and can itself stay
\* a token with another span or segment.)
C6_NonEnclosingCallsSurvive ==
  (Done /\ Defect) =>
    /\ \A b \in Others : ~Encloses(b, edit.target) => Survives(b)
    /\ Len(tokens) <= Len(base.tokens)
    /\ edit.kind = "noPathArg" =>
         /\ \A b \in Others : Survives(b)
         /\ ~TargetEmitted
         /\ Len(tokens) = Len(base.tokens) - 1

\* an unterminated string in a nested call: the enclosing call is lost with
\* it, a following call is kept
C6_Witness ==
  /\ Done
  /\ edit.kind = "unterminated"
  /\ \E b \in Others : Encloses(b, edit.target) /\ ~Survives(b)
  /\ \E b \in Others :
       /\ base.tokens[b].startIndex > base.tokens[edit.target].endIndex
       /\ Survives(b)

\* the record of a token: the one of its kind at its line and column
RecordAt(recs, txt, tok) ==
  CHOOSE r \in 1..Len(recs) :
    /\ recs[r].type = tok.type
    /\ recs[r].line = getLineFromIndex(txt, tok.startIndex)
    /\ recs[r].range.startCol = getColumnFromIndex(txt, tok.startIndex)

\* call b of the text before the change has a string argument with a digit
BearsDigit(b) ==
  \E at \in base.tokens[b].startIndex..base.tokens[b].endIndex :
    /\ CharAt(base.text, at) \in {"0", "1"}
    /\ InnermostCall(base.tokens, at) = b

\* call b of the text before the change is a token after it with the same
\* span and, unless it is a prefix, a record with the same fullPath
SameSpanAndFullPath(b) ==
  \E n \in 1..Len(tokens) :
    /\ tokens[n].type = base.tokens[b].type
    /\ tokens[n].startIndex = base.tokens[b].startIndex
    /\ tokens[n].endIndex = base.tokens[b].endIndex
    /\ tokens[n].type # "prefix" =>
         routes[RecordAt(routes, text, tokens[n])].fullPath
           = base.routes[RecordAt(base.routes, base.text, base.tokens[b])].fullPath

\* C7: parentheses inside the string arguments of a call change neither the
\* span nor the fullPath of any call that follows it or encloses it
C7_ParensInStringsChangeNoOtherCall ==
  (Done /\ edit.kind = "parenInString") =>
    \A s \in 1..Len(base.tokens) : \A b \in 1..Len(base.tokens) :
      ( /\ BearsDigit(s)
        /\ \/ base.tokens[b].startIndex > base.tokens[s].endIndex
           \/ Encloses(b, s) )
      => SameSpanAndFullPath(b)

\* what a record says apart from its position
Declared(recs) ==
  [r \in 1..Len(recs) |-> <<recs[r].type, recs[r].path, recs[r].fullPath>>]

\* C9: whitespace inserted between lexical elements leaves the sequence of
\* records unchanged in kind, declared segment and fullPath
C9_WhitespaceBetweenLexemes ==
  (Done /\ edit.kind \in {"whitespace", "reformat"}) =>
    Declared(routes) = Declared(base.routes)

\* a newline was inserted before a call: its record moved to another line
C9_Witness ==
  /\ Done
  /\ edit.kind = "whitespace"
  /\ Len(routes) >= 2
  /\ Declared(routes) = Declared(base.routes)
  /\ \E r \in 1..Len(routes) : routes[r].line # base.routes[r].line

-----------------------------------------------------------------------------
(* The spans of the tokens, against the lexical structure of the text *)

\* parseRouteTokens has returned
Returned ==
  pc \in {"buildTree", "roots", "traverse", "calculateFullPath", "children", "done"}

\* the quote at offset t closes the string literal opened at offset s: it is
\* the same quote character and an even number of backslashes stands
\* immediately before it
ClosesString(txt, s, t) ==
  /\ t > s /\ t < Len(txt)
  /\ CharAt(txt, t) = CharAt(txt, s)
  /\ \E j \in s..(t - 1) :
       /\ CharAt(txt, j) # "\\"
       /\ \A k \in (j + 1)..(t - 1) : CharAt(txt, k) = "\\"
       /\ (t - 1 - j) % 2 = 0

\* the offset of the last character of the string literal opened at s; the
\* last offset of the text when the literal is not terminated
StringEnd(txt, s) ==
  IF \A t \in (s + 1)..(Len(txt) - 1) : ~ClosesString(txt, s, t)
  THEN Len(txt) - 1
  ELSE CHOOSE t \in (s + 1)..(Len(txt) - 1) :
         /\ ClosesString(txt, s, t)
         /\ \A u \in (s + 1)..(t - 1) : ~ClosesString(txt, s, u)

IsQuote(c) == c = "'" \/ c = "\""

\* the string literals of txt read from offset from on, as pairs of the
\* offsets of their first and last character
RECURSIVE StringsFrom(_, _)
StringsFrom(txt, from) ==
  IF \A s \in from..(Len(txt) - 1) : ~IsQuote(CharAt(txt, s)) THEN {}
  ELSE LET s == CHOOSE q \in from..(Len(txt) - 1) :
                  /\ IsQuote(CharAt(txt, q))
                  /\ \A r \in from..(q - 1) : ~IsQuote(CharAt(txt, r))
           e == StringEnd(txt, s)
       IN {<<s, e>>} \cup StringsFrom(txt, e + 1)

InString(strs, at) == \E str \in strs : str[1] <= at /\ at <= str[2]

\* the parentheses open at offset at, counted from offset open, those inside
\* the string literals strs left out
Depth(txt, strs, open, at) ==
  Cardinality({k \in open..at : CharAt(txt, k) = "(" /\ ~InString(strs, k)})
    - Cardinality({k \in open..at : CharAt(txt, k) = ")" /\ ~InString(strs, k)})

\* the ")" at offset close balances the "(" at offset open
Balances(txt, strs, open, close) ==
  /\ close > open /\ close < Len(txt)
  /\ CharAt(txt, close) = ")"
  /\ ~InString(strs, close)
  /\ Depth(txt, strs, open, close) = 0
  /\ \A k \in open..(close - 1) : Depth(txt, strs, open, k) > 0

\* the places where a construct name followed by "(" stands in the text
Occurrences ==
  {occ \in {"route", "index", "layout", "prefix"} \X (0..(Len(text) - 1)) :
     regexMatchAt(text, occ[1], occ[2]) # -1}

\* the offset of the "(" that follows the construct name at offset at
OpenParenAt(type, at) == regexMatchAt(text, type, at) - 1

TokenAt(occ) ==
  \E n \in 1..Len(tokens) : tokens[n].type = occ[1] /\ tokens[n].startIndex = occ[2]

WellFormedSpans ==
  /\ \A n \in 1..Len(tokens) :
       /\ tokens[n].startIndex < tokens[n].endIndex
       /\ tokens[n].hasChildren =>
            /\ tokens[n].startIndex < tokens[n].childrenStartIndex
            /\ tokens[n].childrenStartIndex < tokens[n].endIndex
  /\ \A n \in 1..Len(tokens) : \A m \in (n + 1)..Len(tokens) :
       tokens[n].startIndex < tokens[m].startIndex

\* C11: every returned token has startIndex < endIndex (< around
\* childrenStartIndex when present), its endIndex is the ")" that balances
\* the "(" after the construct name, parentheses inside the string literals
\* of the text not counted; an occurrence without a balancing ")" yields no
\* token; the tokens are in ascending startIndex order
C11_EndIndexBalancesOpenParen ==
  pc = "buildTree" =>
    /\ WellFormedSpans
    /\ \A n \in 1..Len(tokens) :
         \E open \in {OpenParenAt(tokens[n].type, tokens[n].startIndex)} :
           /\ ~InString(StringsFrom(text, 0), open)
           /\ Balances(text, StringsFrom(text, 0), open, tokens[n].endIndex)
    /\ \A occ \in Occurrences :
         (\A close \in 0..(Len(text) - 1) :
            ~Balances(text, StringsFrom(text, 0), OpenParenAt(occ[1], occ[2]), close))
         => ~TokenAt(occ)

\* the same with the string literals read from the "(" of each call on, as
\* findMatchingParen reads them
C11_EndIndexBalancesFromOwnParen ==
  pc = "buildTree" =>
    /\ WellFormedSpans
    /\ \A n \in 1..Len(tokens) :
         \E open \in {OpenParenAt(tokens[n].type, tokens[n].startIndex)} :
           Balances(text, StringsFrom(text, open + 1), open, tokens[n].endIndex)
    /\ \A occ \in Occurrences :
         \E open \in {OpenParenAt(occ[1], occ[2])} :
           (\A close \in 0..(Len(text) - 1) :
              ~Balances(text, StringsFrom(text, open + 1), open, close))
           => ~TokenAt(occ)

-----------------------------------------------------------------------------
(* The positions of the records, against the lines of the text *)

\* the offsets at which the lines of txt start
LineStarts(txt) ==
  {0} \cup {k + 1 : k \in {j \in 0..(Len(txt) - 1) : CharAt(txt, j) = "\n"}}

\* the offset at which the line that holds offset at starts
LineStartOf(txt, at) ==
  CHOOSE ls \in LineStarts(txt) :
    /\ ls <= at
    /\ \A other \in LineStarts(txt) : other <= at => other <= ls

\* the 0-based number of the line that holds offset at
LineOf(txt, at) == Cardinality({ls \in LineStarts(txt) : ls <= at}) - 1

\* rec is the record of token tok: it has its kind and segment, its line is
\* the line of the start offset, its column leads from the start of that
\* line to the start offset, and its range is the construct name
Located(rec, tok) ==
  /\ rec.type = tok.type
  /\ rec.path = tok.path
  /\ rec.line = LineOf(text, tok.startIndex)
  /\ rec.range.startLine = rec.line
  /\ rec.range.endLine = rec.line
  /\ LineStartOf(text, tok.startIndex) + rec.range.startCol = tok.startIndex
  /\ rec.range.endCol = rec.range.startCol + Len(Keyword(tok.type))
  /\ SubSeq(text, tok.startIndex + 1, tok.startIndex + Len(Keyword(tok.type)))
       = Keyword(tok.type)
  /\ \A k \in tok.startIndex..(tok.startIndex + Len(Keyword(tok.type)) - 1) :
       LineOf(text, k) = rec.line

\* C12: the line of every record is the number of newlines before the start
\* offset of its token, the start column counts from the start of that line
\* to the start offset, and the range lies on that one line and covers
\* exactly the construct name
C12_LineColumnAndRange ==
  Done =>
    /\ \A r \in 1..Len(routes) :
         \E n \in 1..Len(tokens) :
           tokens[n].type # "prefix" /\ Located(routes[r], tokens[n])
    /\ \A n \in 1..Len(tokens) :
         tokens[n].type # "prefix" =>
           \E r \in 1..Len(routes) : Located(routes[r], tokens[n])

\* after a newline was put into the document, a record on a later line, not
\* at the start of that line
C12_Witness ==
  /\ Done
  /\ edit.kind = "whitespace"
  /\ \E r \in 1..Len(routes) :
       /\ routes[r].line > 0
       /\ routes[r].range.startCol > 0
       /\ routes[r].line # base.routes[r].line

====
